---- MODULE Spec2Model ----
(***************************************************************************)
(* mgit-push: reconciliation of the working copy's remotes with the        *)
(* persisted per-platform configuration, and the multi-platform push.      *)
(* The model follows src/lib/index.js, the file bin/mgit-push.js loads.    *)
(*                                                                         *)
(* Strings the program takes apart or builds (URLs, account names, shell   *)
(* command words) are sequences of tokens: a token is one character, or a  *)
(* fixed piece of a template that holds no quote character.  Messages the  *)
(* program only passes on are TLA+ strings.                                *)
(***************************************************************************)
EXTENDS Naturals, Sequences, FiniteSets, TLC

VARIABLES
    pc,         \* position of the run inside pushToAll / showStatus
    cmd,        \* the CLI command of this run: "push" or "status"
    yes,        \* options.yes
    options,    \* the other options of `push [branch]`: [branch, force, tags]
    currentBranch, \* what `git branch --show-current` prints, or ExecError
    branch,     \* the `branch` local of pushToAll (Undefined before line 519)
    call,       \* SpecCalls: the function under study and what it is given
    returned,   \* SpecCalls: what it returned (NoCall before it has run)
    isRepo,     \* whether `git rev-parse --git-dir` succeeds in the cwd
    file,       \* content of .mgit-push.json: "missing", "corrupt" or a config
    config,     \* the `config` local of pushToAll (Null before it is loaded)
    remotes,    \* the working copy's remote bindings: name -> URL or NoRemote
    remotes0,   \* the bindings when the reconciliation in progress began
    pass,       \* which reconciliation in succession this is (1, or 2 in SpecTwice)
    k,          \* index of the loop in progress (setupRemotes, then the pushes)
    enabledPlatforms, \* the `enabledPlatforms` local of pushToAll
    results,    \* the `results` local of pushToAll: [success, failed]
    output,     \* what the user has been shown, in order
    log         \* the external operations performed so far, in order

vars == <<pc, cmd, yes, options, currentBranch, branch, call, returned, isRepo,
          file, config, remotes, remotes0, pass, k,
          enabledPlatforms, results, output, log>>

----------------------------------------------------------------------------
(* Bounds of the model *)

\* longest platform mapping of a persisted configuration
MaxPlatforms == 2

\* longest account or repository name of a URL given to parseRepoInfo
MaxLen == 2

\* most remotes analyzeRepo is given
MaxBindings == 2

----------------------------------------------------------------------------
(* Values *)

Null == "null"
Undefined == "undefined"
NoRemote == <<"<no remote>">>
ExecError == "<command failed>"
NoCall == [fn |-> "none"]
ShellError == <<"<sh: syntax error>">>

\* PLATFORMS, in Object.entries order
PLATFORMS == <<"github", "gitee", "gitlab", "gitcode">>

PlatformKeys == {PLATFORMS[n] : n \in 1..Len(PLATFORMS)}

Template(platform) ==
    CASE platform = "github"  -> <<"git@github.com:", "{username}", "/", "{repo}", ".git">>
      [] platform = "gitee"   -> <<"git@gitee.com:", "{username}", "/", "{repo}", ".git">>
      [] platform = "gitlab"  -> <<"git@gitlab.com:", "{username}", "/", "{repo}", ".git">>
      [] platform = "gitcode" -> <<"git@gitcode.com:", "{username}", "/", "{repo}", ".git">>

\* keys a persisted configuration may hold: two registry keys and one key
\* the registry does not know (the file is edited by hand, README "配置文件")
ConfigKeys == {"github", "gitee", "bitbucket"}

RemoteNames == ConfigKeys \cup PlatformKeys \cup {"origin"}

\* account names: validate (index.js:316) only asks for a non-empty answer
Accounts == {<<"a">>, <<"o", "'">>}

Repos == {<<"p">>}

\* what a remote left over from earlier work points to
StaleURL == <<"git@old.example:", "x", "/", "y", ".git">>

\* the [branch] argument of `mgit push`: absent, empty or a branch name
BranchArguments == {Undefined, "", "dev"}

\* what `git branch --show-current` gives: a name, nothing (detached HEAD),
\* or an error
BranchOutputs == {"feature", "", ExecError}

\* the options of a run: push [branch] -f -t
Options ==
    [branch : BranchArguments, force : BOOLEAN, tags : BOOLEAN]

\* a run without an argument and without flags
NoOptions == [branch |-> Undefined, force |-> FALSE, tags |-> FALSE]

\* how a `git push` can end: exit code and what it wrote to stderr (git
\* reports on stderr also when it succeeds)
PushOutcomes ==
    {[code |-> 0, stderr |-> "Everything up-to-date"],
     [code |-> 1, stderr |-> "permission denied"],
     [code |-> 1, stderr |-> ""]}

----------------------------------------------------------------------------
(* String helpers *)

\* the backquote character as a token of a string
Backquote == "<backquote>"

RECURSIVE GetSubstitution(_, _, _, _)
\* what String.prototype.replace puts in for a replacement string: $$ is a
\* dollar sign, $& the matched text, $ with a backquote the text before the
\* match, $ with a quote the text after it; any other $ stands for itself
\* (a string pattern has no capture groups)
GetSubstitution(replacement, matched, before, after) ==
    IF replacement = <<>> THEN <<>>
    ELSE IF Head(replacement) = "$" /\ Len(replacement) >= 2
            /\ replacement[2] \in {"$", "&", Backquote, "'"}
    THEN (CASE replacement[2] = "$" -> <<"$">>
            [] replacement[2] = "&" -> matched
            [] replacement[2] = Backquote -> before
            [] replacement[2] = "'" -> after)
         \o GetSubstitution(SubSeq(replacement, 3, Len(replacement)),
                            matched, before, after)
    ELSE <<Head(replacement)>>
         \o GetSubstitution(Tail(replacement), matched, before, after)

\* String.prototype.replace(pattern, replacement) with a string pattern:
\* the first occurrence only, the replacement read for its $ patterns
ReplaceFirst(s, pattern, replacement) ==
    LET found == {n \in DOMAIN s : s[n] = pattern}
    IN  IF found = {} THEN s
        ELSE LET n == CHOOSE i \in found : \A j \in found : i <= j
                 before == SubSeq(s, 1, n - 1)
                 after == SubSeq(s, n + 1, Len(s))
             IN  before
                 \o GetSubstitution(replacement, <<pattern>>, before, after)
                 \o after

RECURSIVE ReplaceAll(_, _, _)
\* String.prototype.replace with a /g pattern of one character
ReplaceAll(s, pattern, replacement) ==
    IF s = <<>> THEN <<>>
    ELSE (IF Head(s) = pattern THEN replacement ELSE <<Head(s)>>)
         \o ReplaceAll(Tail(s), pattern, replacement)

\* platformInfo.template.replace("{username}", username).replace("{repo}", repo)
RenderURL(platform, username, repo) ==
    ReplaceFirst(ReplaceFirst(Template(platform), "{username}", username), "{repo}", repo)

\* the host a pattern of PLATFORMS names: /<host>[:/]([^/]+)\/([^/.]+)/i
PatternHost(platform) ==
    CASE platform = "github"  -> "github.com"
      [] platform = "gitee"   -> "gitee.com"
      [] platform = "gitlab"  -> "gitlab.com"
      [] platform = "gitcode" -> "gitcode.com"

\* a URL as the pattern reads it: the host on its own, the fixed pieces of
\* a template taken apart
Pieces(token) ==
    IF \E platform \in PlatformKeys : token = Head(Template(platform))
    THEN LET platform == CHOOSE q \in PlatformKeys : token = Head(Template(q))
         IN  <<"git@", PatternHost(platform), ":">>
    ELSE IF token = ".git" THEN <<".", "git">>
    ELSE <<token>>

RECURSIVE Chars(_)
Chars(url) == IF url = <<>> THEN <<>> ELSE Pieces(Head(url)) \o Chars(Tail(url))

\* the i flag: the host in another case
LowerCase(token) ==
    CASE token = "GitHub.com" -> "github.com"
      [] token = "GITEE.COM" -> "gitee.com"
      [] OTHER -> token

\* [^/]: a token without a slash
NotSlash(token) == token \notin {"/", "https://"}

\* [^/.]: a token with neither slash nor dot (no input of the model holds a
\* host name where the repository name is read)
NotSlashOrDot(token) ==
    /\ NotSlash(token)
    /\ token # "."
    /\ \A platform \in PlatformKeys : LowerCase(token) # PatternHost(platform)

\* whether a character class of the patterns accepts a token
Accepts(class, token) ==
    IF class = "[^/]" THEN NotSlash(token) ELSE NotSlashOrDot(token)

RECURSIVE RunEnd(_, _, _)
\* where the longest run of accepted tokens that starts at `from` ends
\* (from - 1 when there is none)
RunEnd(u, from, class) ==
    IF from > Len(u) \/ ~Accepts(class, u[from]) THEN from - 1
    ELSE RunEnd(u, from + 1, class)

NoMatch == [platform |-> Null, username |-> <<>>, repo |-> <<>>]

\* the groups of a match whose account ends at accountEnd and whose
\* repository name ends at repoEnd, when both are there with the slash
\* between them
Groups(platform, u, from, accountEnd, repoEnd) ==
    IF /\ accountEnd >= from
       /\ accountEnd + 1 <= Len(u)
       /\ u[accountEnd + 1] = "/"
       /\ repoEnd >= accountEnd + 2
    THEN [platform |-> platform,
          username |-> SubSeq(u, from, accountEnd),
          repo |-> SubSeq(u, accountEnd + 2, repoEnd)]
    ELSE NoMatch

\* the pattern tried at position i of u: host, one of : and /, the account
\* up to the next slash, the slash, the repository name
MatchAt(platform, u, i) ==
    IF /\ LowerCase(u[i]) = PatternHost(platform)
       /\ i + 1 <= Len(u)
       /\ u[i + 1] \in {":", "/"}
    THEN Groups(platform, u, i + 2, RunEnd(u, i + 2, "[^/]"),
                RunEnd(u, RunEnd(u, i + 2, "[^/]") + 2, "[^/.]"))
    ELSE NoMatch

\* url.match(pattern): the leftmost match
Match(platform, u) ==
    LET found == {i \in DOMAIN u : MatchAt(platform, u, i) # NoMatch}
    IN  IF found = {} THEN NoMatch
        ELSE MatchAt(platform, u, CHOOSE i \in found : \A j \in found : i <= j)

\* `if (match) return ...`, or else what the later turns of the loop return
MatchOr(match, later) == IF match # NoMatch THEN match ELSE later

RECURSIVE FirstMatch(_, _)
\* the loop of parseRepoInfo over Object.entries(PLATFORMS), from turn n on
FirstMatch(u, n) ==
    IF n > Len(PLATFORMS) THEN NoMatch
    ELSE MatchOr(Match(PLATFORMS[n], u), FirstMatch(u, n + 1))

\* parseRepoInfo(url): the first platform of PLATFORMS whose pattern matches
parseRepoInfo(url) == FirstMatch(Chars(url), 1)

\* quoting that doubles the quote character instead of leaving the quotes
escapeArg_DoublesQuote(arg) ==
    <<"'">> \o ReplaceAll(arg, "'", <<"'", "'">>) \o <<"'">>

\* escapeArg, the branch taken when process.platform is not "win32"
escapeArg(arg) ==
    <<"'">> \o ReplaceAll(arg, "'", <<"'", "\"", "'", "\"", "'">>) \o <<"'">>

RECURSIVE ShellScan(_, _, _)
\* /bin/sh reading one word: quote removal.  mode is "plain", "single" or
\* "double"; a quote left open is a syntax error.
ShellScan(s, mode, acc) ==
    IF s = <<>> THEN (IF mode = "plain" THEN acc ELSE ShellError)
    ELSE IF mode = "plain" THEN
        IF Head(s) = "'" THEN ShellScan(Tail(s), "single", acc)
        ELSE IF Head(s) = "\"" THEN ShellScan(Tail(s), "double", acc)
        ELSE ShellScan(Tail(s), "plain", Append(acc, Head(s)))
    ELSE IF mode = "single" THEN
        IF Head(s) = "'" THEN ShellScan(Tail(s), "plain", acc)
        ELSE ShellScan(Tail(s), "single", Append(acc, Head(s)))
    ELSE
        IF Head(s) = "\"" THEN ShellScan(Tail(s), "plain", acc)
        ELSE ShellScan(Tail(s), "double", Append(acc, Head(s)))

\* the argument git receives for a word of the command line execSync runs
ShellWord(word) == ShellScan(word, "plain", <<>>)

----------------------------------------------------------------------------
(* The external version-control tool *)

\* a key of config.platforms that holds a shell operator
InjectingKey == "gitee;git remote remove origin"

\* what /bin/sh reads in a key that is put into the command line unquoted:
\* words, and the operator ";" between commands
KeyText(key) ==
    IF key = InjectingKey
    THEN <<"gitee", ";", "git", "remote", "remove", "origin">>
    ELSE <<key>>

RECURSIVE SplitCommands(_, _)
\* the commands of a list `a ; b ; c`, each a sequence of words
SplitCommands(tokens, current) ==
    IF tokens = <<>> THEN <<current>>
    ELSE IF Head(tokens) = ";"
    THEN <<current>> \o SplitCommands(Tail(tokens), <<>>)
    ELSE SplitCommands(Tail(tokens), Append(current, Head(tokens)))

\* the URL written after the key is the last word of the last command
Commands(segments, urls) ==
    [n \in 1..Len(segments) |->
        [words |-> segments[n],
         urls |-> IF n = Len(segments) THEN urls ELSE <<>>]]

\* git remote get-url|add|set-url|remove with the arguments given; any
\* other number of arguments is a usage error.  git refuses to add a name
\* that exists and to repoint or remove one that does not.
GitRun(rem, verb, names, urls) ==
    IF verb = "get-url" /\ Len(names) = 1 /\ Len(urls) = 0
    THEN [ok |-> rem[names[1]] # NoRemote, remotes |-> rem]
    ELSE IF verb = "add" /\ Len(names) = 1 /\ Len(urls) = 1
            /\ rem[names[1]] = NoRemote
    THEN [ok |-> TRUE, remotes |-> [rem EXCEPT ![names[1]] = urls[1]]]
    ELSE IF verb = "set-url" /\ Len(names) = 1 /\ Len(urls) = 1
            /\ rem[names[1]] # NoRemote
    THEN [ok |-> TRUE, remotes |-> [rem EXCEPT ![names[1]] = urls[1]]]
    ELSE IF verb = "remove" /\ Len(names) = 1 /\ Len(urls) = 0
            /\ rem[names[1]] # NoRemote
    THEN [ok |-> TRUE, remotes |-> [rem EXCEPT ![names[1]] = NoRemote]]
    ELSE [ok |-> FALSE, remotes |-> rem]

\* one command of the list: `git remote <verb> <arguments>`
GitExec(rem, command) ==
    IF Len(command.words) < 3 \/ command.words[1] # "git"
       \/ command.words[2] # "remote"
    THEN [ok |-> FALSE, remotes |-> rem]
    ELSE GitRun(rem, command.words[3],
                SubSeq(command.words, 4, Len(command.words)), command.urls)

RECURSIVE RunCommands(_, _, _, _)
\* /bin/sh -c "a ; b": every command runs, the exit status is the last one's
RunCommands(rem, commands, n, ok) ==
    IF n > Len(commands) THEN [ok |-> ok, remotes |-> rem]
    ELSE RunCommands(GitExec(rem, commands[n]).remotes, commands, n + 1,
                     GitExec(rem, commands[n]).ok)

\* execSync(`git remote ${verb} ${name} ...`): the exit status and the
\* remotes afterwards
Sh(rem, verb, name, urls) ==
    RunCommands(rem,
                Commands(SplitCommands(<<"git", "remote", verb>> \o KeyText(name),
                                       <<>>), urls),
                1, TRUE)

\* a check that never finds the remote
remoteExists_NeverFound(rem, name) == FALSE

\* remoteExists(name): `git remote get-url ${name}` exits 0.  The URL of a
\* binding is the one this command reports.
remoteExists(rem, name) == Sh(rem, "get-url", name, <<>>).ok

\* the remotes after the command of remoteExists has run
AfterProbe(rem, name) == Sh(rem, "get-url", name, <<>>).remotes

\* execSync(`git remote add|set-url ${platform} ${escapeArg(url)}`): the
\* outcome and the remotes afterwards.  fault stands for any failure of the
\* tool that the arguments do not explain (a locked or read-only git config).
GitRemote(rem, verb, name, word, fault) ==
    IF fault \/ ShellWord(word) = ShellError
    THEN [ok |-> FALSE, remotes |-> rem]
    ELSE Sh(rem, verb, name, <<ShellWord(word)>>)

----------------------------------------------------------------------------
(* Configurations *)

\* one entry of config.platforms; the mapping is a sequence in key order
PlatformConfig(platform, enabled, username, repo) ==
    [platform |-> platform, enabled |-> enabled, username |-> username,
     url |-> IF platform \in PlatformKeys
             THEN RenderURL(platform, username, repo)
             ELSE <<"git@bitbucket.org:">> \o username \o <<"/">> \o repo \o <<".git">>]

NoConfig(kind) == [kind |-> kind, repository |-> <<>>, platforms |-> <<>>]

Config(repo, platforms) ==
    [kind |-> "config", repository |-> repo, platforms |-> platforms]

Injective(f) == \A a, b \in DOMAIN f : f[a] = f[b] => a = b

KeySeqs == {ks \in UNION {[1..n -> ConfigKeys] : n \in 0..MaxPlatforms} : Injective(ks)}

\* the records .mgit-push.json may hold when a run starts
FileConfigs ==
    UNION {UNION {{Config(repo,
                          [n \in 1..Len(ks) |->
                              PlatformConfig(ks[n], en[n], account, repo)])
                    : en \in [1..Len(ks) -> BOOLEAN]}
                  : account \in Accounts, repo \in Repos}
           : ks \in KeySeqs}

Files == {[state |-> "missing", config |-> NoConfig(Null)],
          [state |-> "corrupt", config |-> NoConfig(Null)]}
         \cup {[state |-> "ok", config |-> c] : c \in FileConfigs}

\* names that may be bound before the run
PreExisting == {"origin", "github"}

InitialRemotes ==
    {[name \in RemoteNames |-> IF name \in bound THEN StaleURL ELSE NoRemote]
        : bound \in SUBSET PreExisting}

\* a loader whose catch answers an unreadable file with an empty configuration
loadConfig_CorruptIsEmpty(f) ==
    IF f.state = "ok" THEN f.config
    ELSE IF f.state = "corrupt" THEN Config(<<>>, <<>>)
    ELSE NoConfig(Null)

\* loadConfig(): the parsed file, or null when it is missing or unreadable
loadConfig(f) == IF f.state = "ok" THEN f.config ELSE NoConfig(Null)

RECURSIVE SelectSeq2(_, _)
\* Object.entries(config.platforms).filter(([, cfg]) => cfg.enabled)
\*       .map(([platform]) => platform)
SelectSeq2(platforms, n) ==
    IF n > Len(platforms) THEN <<>>
    ELSE (IF platforms[n].enabled THEN <<platforms[n].platform>> ELSE <<>>)
         \o SelectSeq2(platforms, n + 1)

EnabledPlatforms(c) == SelectSeq2(c.platforms, 1)

----------------------------------------------------------------------------
(* What the user sees, and the record of external operations *)

Msg(msg, platform, text, list) ==
    [msg |-> msg, platform |-> platform, text |-> text, list |-> list]

\* an external operation: a step of the run (load, init, save, commit) ...
Op(op, ok) ==
    [op |-> op, name |-> "", arg |-> <<>>, ok |-> ok, fault |-> FALSE,
     code |-> 0, stderr |-> ""]

\* ... a `git remote add|set-url name url` ...
RemoteOp(verb, name, url, ok, fault) ==
    [op |-> verb, name |-> name, arg |-> url, ok |-> ok, fault |-> fault,
     code |-> 0, stderr |-> ""]

\* ... an inquirer prompt of pushToAll and the operator's answer ...
PromptOp(prompt, answer) ==
    [op |-> prompt, name |-> answer, arg |-> <<>>, ok |-> TRUE, fault |-> FALSE,
     code |-> 0, stderr |-> ""]

\* a JavaScript value that counts as false in `a || b`
Falsy(value) == value \in {Undefined, Null, ""}

\* getCurrentBranch(): the trimmed output, or "main" when it is empty or
\* the command failed
getCurrentBranch(printed) ==
    IF printed = ExecError THEN "main"
    ELSE IF Falsy(printed) THEN "main"
    ELSE printed

\* options.branch || getCurrentBranch()
ResolveBranch(opts, printed) ==
    IF Falsy(opts.branch) THEN getCurrentBranch(printed) ELSE opts.branch

\* an argument list that leaves the tags flag out
PushArgs_WithoutTags(platform, branchName, opts) ==
    <<"push">> \o (IF opts.force THEN <<"--force">> ELSE <<>>)
               \o <<platform, branchName>>

\* pushToRemote: the arguments git is spawned with
PushArgs(platform, branchName, opts) ==
    <<"push">> \o (IF opts.force THEN <<"--force">> ELSE <<>>)
               \o (IF opts.tags THEN <<"--tags">> ELSE <<>>)
               \o <<platform, branchName>>

\* ... a `git branch --show-current` and what it printed ...
BranchOp(printed) ==
    [op |-> "show-current", name |-> printed, arg |-> <<>>,
     ok |-> printed # ExecError, fault |-> FALSE, code |-> 0, stderr |-> ""]

\* ... or a `git push` of the run, with its arguments, exit code and stderr
PushOp(name, code, stderr) ==
    [op |-> "push", name |-> name, arg |-> PushArgs(name, branch, options),
     ok |-> code = 0, fault |-> FALSE, code |-> code, stderr |-> stderr]

\* error.message of the rejection of pushToRemote:
\* new Error(error || `推送失败，退出码: ${code}`)
PushErrorMessage(stderr, code) ==
    IF stderr # "" THEN stderr ELSE "push failed, exit code: " \o ToString(code)

----------------------------------------------------------------------------
(* The run *)

Init ==
    /\ pc = "start"
    /\ cmd \in {"push", "status"}
    /\ isRepo \in BOOLEAN
    /\ yes \in (IF cmd = "push" /\ isRepo THEN BOOLEAN ELSE {FALSE})
    /\ options = NoOptions
    /\ currentBranch = "feature"
    /\ branch = Undefined
    /\ call = NoCall
    /\ returned = NoCall
    /\ file \in (IF isRepo THEN Files ELSE {[state |-> "missing", config |-> NoConfig(Null)]})
    /\ remotes \in (IF isRepo THEN InitialRemotes
                    ELSE {[name \in RemoteNames |-> NoRemote]})
    /\ remotes0 = remotes
    /\ pass = 1
    /\ config = NoConfig(Null)
    /\ k = 0
    /\ enabledPlatforms = <<>>
    /\ results = [success |-> <<>>, failed |-> <<>>]
    /\ output = <<>>
    /\ log = <<>>

\* a run that goes on without the repository check
CheckRepo_SkipsCheck ==
    /\ pc = "start" /\ cmd = "push"
    /\ pc' = "uncommitted"
    /\ UNCHANGED <<cmd, yes, call, returned, options, currentBranch, branch, isRepo, remotes0, pass, file, config, remotes, k,
                   enabledPlatforms, results, output, log>>

\* pushToAll: the repository check
CheckRepo ==
    /\ pc = "start" /\ cmd = "push"
    /\ IF ~isRepo
       THEN /\ output' = Append(output, Msg("not a git repository", "", "", <<>>))
            /\ pc' = "done"
       ELSE /\ pc' = "uncommitted"
            /\ UNCHANGED output
    /\ UNCHANGED <<cmd, yes, call, returned, options, currentBranch, branch, isRepo, remotes0, pass, file, config, remotes, k, enabledPlatforms,
                   results, log>>

\* a decline that is taken for a consent
Declined_Never(confirm) == FALSE

\* if (!confirm) after the confirmation prompt
Declined(confirm) == ~confirm

\* if (action === "cancel") after the uncommitted-changes prompt
Cancelled(action) == action = "cancel"

\* pushToAll: uncommitted changes, the operator's choice and the commit
HandleUncommitted ==
    /\ pc = "uncommitted"
    /\ \E dirty \in BOOLEAN, action \in {"commit", "ignore", "cancel"},
          commitOk \in BOOLEAN :
        IF ~dirty
        THEN pc' = "load" /\ UNCHANGED <<output, log>>
        ELSE IF Cancelled(action)
        THEN /\ pc' = "done"
             /\ output' = Append(output, Msg("push cancelled", "", "", <<>>))
             /\ log' = Append(log, PromptOp("ask-uncommitted", action))
        ELSE IF action # "commit"
        THEN /\ pc' = "load"
             /\ log' = Append(log, PromptOp("ask-uncommitted", action))
             /\ UNCHANGED output
        ELSE /\ log' = log \o <<PromptOp("ask-uncommitted", action),
                                 Op("commit", commitOk)>>
             /\ IF commitOk
                THEN /\ pc' = "load"
                     /\ output' = Append(output, Msg("changes committed", "", "", <<>>))
                ELSE /\ pc' = "done"
                     /\ output' = Append(output, Msg("commit failed", "", "", <<>>))
    /\ UNCHANGED <<cmd, yes, call, returned, options, currentBranch, branch, isRepo, remotes0, pass, file, config, remotes, k, enabledPlatforms,
                   results>>

\* pushToAll: let config = loadConfig(); if (!config) ...
LoadConfig ==
    /\ pc = "load"
    /\ log' = Append(log, Op("load", file.state = "ok"))
    /\ config' = loadConfig(file)
    /\ IF loadConfig(file).kind = Null
       THEN /\ pc' = "init"
            /\ output' = output
                   \o (IF file.state = "corrupt"
                       THEN <<Msg("config file unreadable", "", "", <<>>)>> ELSE <<>>)
                   \o <<Msg("no config file, initializing", "", "", <<>>)>>
       ELSE /\ pc' = "setup"
            /\ UNCHANGED output
    /\ k' = 1
    /\ UNCHANGED <<cmd, yes, call, returned, options, currentBranch, branch, isRepo, remotes0, pass, file, remotes, enabledPlatforms, results>>

\* what the checkbox prompt can return: registry keys in the order of the
\* choices, at most MaxPlatforms of them
Selections ==
    {SelectSeq(PLATFORMS, LAMBDA key : key \in chosen)
        : chosen \in {c \in SUBSET PlatformKeys : Cardinality(c) <= MaxPlatforms}}

\* initConfig, from the answers to its prompts to the value it returns
InitResult(gitUserName, consistent, repo, selected, answers) ==
    IF Len(selected) = 0 THEN NoConfig(Undefined)
    ELSE Config(repo,
                [n \in 1..Len(selected) |->
                    PlatformConfig(selected[n], TRUE,
                                   IF consistent THEN gitUserName
                                   ELSE answers[selected[n]],
                                   repo)])

\* pushToAll: config = await initConfig()
InitConfig ==
    /\ pc = "init"
    /\ \E gitUserName \in Accounts, consistent \in BOOLEAN, repo \in Repos,
          selected \in Selections, answers \in [PlatformKeys -> Accounts],
          saveOk \in BOOLEAN :
        LET made == InitResult(gitUserName, consistent, repo, selected, answers)
        IN  /\ config' = made
            /\ IF made.kind = Undefined
               THEN /\ output' = Append(output,
                                    Msg("select at least one platform", "", "", <<>>))
                    /\ log' = Append(log, Op("init", FALSE))
                    /\ UNCHANGED file
               ELSE /\ log' = log \o <<Op("init", TRUE),
                                       Op("save", saveOk)>>
                    /\ IF saveOk
                       THEN /\ file' = [state |-> "ok", config |-> made]
                            /\ output' = Append(output,
                                            Msg("config saved", "", "", <<>>))
                       ELSE /\ output' = Append(output,
                                            Msg("config save failed", "", "", <<>>))
                            /\ UNCHANGED file
    /\ pc' = "setup"
    /\ k' = 1
    /\ UNCHANGED <<cmd, yes, call, returned, options, currentBranch, branch, isRepo, remotes0, pass, remotes, enabledPlatforms, results>>

\* the unhandledRejection handler of bin/mgit-push.js: print and exit(1)
Crash(text) ==
    /\ pc' = "crashed"
    /\ output' = Append(output, Msg("unhandled error", "", text, <<>>))

\* what the try block of setupRemotes throws for one platform ("" when it
\* throws nothing): execSync's error, or the TypeError of platformInfo.icon
\* for a key PLATFORMS does not hold, raised after the command has run
SetupError(done, platform, verb) ==
    IF ~done.ok THEN "Command failed: git remote " \o verb
    ELSE IF platform \notin PlatformKeys
    THEN "TypeError: cannot read properties of undefined"
    ELSE ""

\* a catch that leaves the loop without returning false
AfterRemote_Break(error, n) ==
    IF error # "" THEN [pc |-> "setup", k |-> Len(config.platforms) + 1]
    ELSE [pc |-> "setup", k |-> n + 1]

\* a catch that reports the failure and goes on with the next platform
AfterRemote_Continues(error, n) == [pc |-> "setup", k |-> n + 1]

\* the catch of setupRemotes returns false; without an error the loop goes on
AfterRemote(error, n) ==
    IF error # "" THEN [pc |-> "done", k |-> n] ELSE [pc |-> "setup", k |-> n + 1]

\* setupRemotes: one turn of its loop over Object.entries(config.platforms)
setupRemotes ==
    /\ pc = "setup"
    /\ IF config.kind # "config"
       THEN /\ Crash("TypeError: cannot read properties of undefined")
            /\ UNCHANGED <<remotes, k, log>>
       ELSE /\ k <= Len(config.platforms)
            /\ LET platform == config.platforms[k].platform
                   platformConfig == config.platforms[k]
               IN  IF ~platformConfig.enabled
                   THEN /\ k' = k + 1
                        /\ UNCHANGED <<pc, remotes, output, log>>
                   ELSE \E fault \in BOOLEAN :
                        LET verb == IF remoteExists(remotes, platform)
                                    THEN "set-url" ELSE "add"
                            done == GitRemote(AfterProbe(remotes, platform),
                                              verb, platform,
                                              escapeArg(platformConfig.url), fault)
                            error == SetupError(done, platform, verb)
                        IN  /\ log' = Append(log, RemoteOp(verb, platform,
                                                platformConfig.url, done.ok, fault))
                            /\ remotes' = done.remotes
                            /\ pc' = AfterRemote(error, k).pc
                            /\ k' = AfterRemote(error, k).k
                            /\ output' = IF error # ""
                                         THEN Append(output,
                                                Msg("setup failed", platform, error, <<>>))
                                         ELSE output
    /\ UNCHANGED <<cmd, yes, call, returned, options, currentBranch, branch, isRepo, remotes0, pass, file, config, enabledPlatforms,
                   results>>

\* pushToAll after setupRemotes returned true: the enabled platforms, and
\* the way to the confirmation or straight to the pushes
AfterSetup ==
    /\ pc = "setup"
    /\ config.kind = "config"
    /\ k > Len(config.platforms)
    /\ enabledPlatforms' = EnabledPlatforms(config)
    /\ IF Len(EnabledPlatforms(config)) = 0
       THEN /\ pc' = "done"
            /\ output' = output \o <<Msg("remotes configured", "", "", <<>>),
                                     Msg("no enabled platform", "", "", <<>>)>>
            /\ UNCHANGED <<branch, log>>
       ELSE /\ pc' = IF yes THEN "push" ELSE "confirm"
            /\ output' = Append(output, Msg("remotes configured", "", "", <<>>))
            /\ branch' = ResolveBranch(options, currentBranch)
            /\ log' = IF Falsy(options.branch)
                      THEN Append(log, BranchOp(currentBranch)) ELSE log
    /\ k' = 1
    /\ UNCHANGED <<cmd, yes, call, returned, options, currentBranch, isRepo, remotes0, pass, file, config,
                   remotes, results>>

\* pushToAll: the confirmation prompt
ConfirmPush ==
    /\ pc = "confirm"
    /\ \E confirm \in BOOLEAN :
        /\ log' = Append(log, PromptOp("ask-confirm",
                                       IF confirm THEN "yes" ELSE "no"))
        /\ IF Declined(confirm)
           THEN /\ pc' = "done"
                /\ output' = Append(output, Msg("push cancelled", "", "", <<>>))
           ELSE pc' = "push" /\ UNCHANGED output
    /\ UNCHANGED <<cmd, yes, call, returned, options, currentBranch, branch, isRepo, remotes0, pass, file, config, remotes, k, enabledPlatforms,
                   results>>

\* a promise that rejects whenever git wrote to stderr
pushToRemote_FailsOnStderr(code, stderr) ==
    IF code = 0 /\ stderr = "" THEN [ok |-> TRUE, message |-> ""]
    ELSE [ok |-> FALSE, message |-> PushErrorMessage(stderr, code)]

\* pushToRemote: the promise resolves when git exits with code 0 and
\* rejects otherwise, whatever git wrote to stderr
pushToRemote(code, stderr) ==
    IF code = 0 THEN [ok |-> TRUE, message |-> ""]
    ELSE [ok |-> FALSE, message |-> PushErrorMessage(stderr, code)]

\* a catch that puts the latest failure first (unshift for push)
RecordPush_Unshift(res, platform, outcome) ==
    IF outcome.ok
    THEN [res EXCEPT !.success = Append(@, platform)]
    ELSE [res EXCEPT !.failed = <<[platform |-> platform,
                                   error |-> outcome.message]>> \o @]

\* the try/catch around pushToRemote: the results after one attempt
RecordPush(res, platform, outcome) ==
    IF outcome.ok
    THEN [res EXCEPT !.success = Append(@, platform)]
    ELSE [res EXCEPT !.failed = Append(@, [platform |-> platform,
                                           error |-> outcome.message])]

\* a push loop that leaves at the first failed attempt (a break in the catch)
AfterPush_StopsAtFailure(outcome, n) ==
    IF outcome.ok THEN [pc |-> "push", k |-> n + 1]
    ELSE [pc |-> "push", k |-> Len(enabledPlatforms) + 1]

\* a push loop that attempts a platform again after a failed attempt
AfterPush_Retries(outcome, n) ==
    IF outcome.ok THEN [pc |-> "push", k |-> n + 1] ELSE [pc |-> "push", k |-> n]

\* where the push loop goes after an attempt
AfterPush(outcome, n) == [pc |-> "push", k |-> n + 1]

\* pushToAll: one turn of the loop over enabledPlatforms
PushStep ==
    /\ pc = "push"
    /\ k <= Len(enabledPlatforms)
    /\ LET platform == enabledPlatforms[k]
       IN  IF platform \notin PlatformKeys
           THEN /\ Crash("TypeError: cannot read properties of undefined")
                /\ UNCHANGED <<k, results, log>>
           ELSE \E exit \in PushOutcomes :
                LET code == exit.code
                    stderr == exit.stderr
                    outcome == pushToRemote(code, stderr)
                IN  /\ log' = Append(log, PushOp(platform, code, stderr))
                    /\ results' = RecordPush(results, platform, outcome)
                    /\ output' = Append(output,
                          Msg(IF outcome.ok THEN "push succeeded" ELSE "push failed",
                              platform, "", <<>>))
                    /\ pc' = AfterPush(outcome, k).pc
                    /\ k' = AfterPush(outcome, k).k
    /\ UNCHANGED <<cmd, yes, call, returned, options, currentBranch, branch, isRepo, remotes0, pass, file, config, remotes, enabledPlatforms>>

RECURSIVE FailedNames(_)
\* results.failed.map((f) => f.platform)
FailedNames(failed) ==
    IF failed = <<>> THEN <<>>
    ELSE <<Head(failed).platform>> \o FailedNames(Tail(failed))

\* a report that names the failed platforms without their messages
FailedDetails_Omitted(failed) == <<>>

RECURSIVE FailedDetails(_)
\* results.failed.forEach((f) => console.log(`   ${f.platform}: ${f.error}`))
FailedDetails(failed) ==
    IF failed = <<>> THEN <<>>
    ELSE <<Msg("failure detail", Head(failed).platform, Head(failed).error, <<>>)>>
         \o FailedDetails(Tail(failed))

\* a report that prints both sections whatever the lists hold
Summary_BothSections(res) ==
    <<Msg("push results", "", "", <<>>),
      Msg("succeeded", "", "", res.success),
      Msg("failed", "", "", FailedNames(res.failed))>>
    \o FailedDetails(res.failed)
    \o (IF Len(res.failed) > 0
        THEN <<Msg("troubleshooting hints", "", "", <<>>)>> ELSE <<>>)

\* the lines pushToAll prints after the loop
Summary(res) ==
    <<Msg("push results", "", "", <<>>)>>
    \o (IF Len(res.success) > 0
        THEN <<Msg("succeeded", "", "", res.success)>> ELSE <<>>)
    \o (IF Len(res.failed) > 0
        THEN <<Msg("failed", "", "", FailedNames(res.failed))>>
             \o FailedDetails(res.failed)
             \o <<Msg("troubleshooting hints", "", "", <<>>)>>
        ELSE <<>>)

\* pushToAll: the end of the loop and the report
ReportResults ==
    /\ pc = "push"
    /\ k > Len(enabledPlatforms)
    /\ output' = output \o Summary(results)
    /\ pc' = "done"
    /\ UNCHANGED <<cmd, yes, call, returned, options, currentBranch, branch, isRepo, remotes0, pass, file, config, remotes, k, enabledPlatforms,
                   results, log>>

RECURSIVE StatusLines(_, _, _)
\* showStatus: the loop over Object.entries(config.platforms); a key the
\* registry does not know ends it with a TypeError (platformInfo.icon)
StatusLines(platforms, rem, n) ==
    IF n > Len(platforms) THEN [lines |-> <<>>, crashed |-> FALSE]
    ELSE IF ~platforms[n].enabled THEN StatusLines(platforms, rem, n + 1)
    ELSE IF platforms[n].platform \notin PlatformKeys
    THEN [lines |-> <<>>, crashed |-> TRUE]
    ELSE LET rest == StatusLines(platforms, rem, n + 1)
         IN  [lines |-> <<Msg(IF remoteExists(rem, platforms[n].platform)
                              THEN "status: configured"
                              ELSE "status: not configured",
                              platforms[n].platform, "", <<>>)>> \o rest.lines,
              crashed |-> rest.crashed]

\* showStatus
showStatus ==
    /\ pc = "start" /\ cmd = "status"
    /\ IF ~isRepo
       THEN /\ output' = Append(output, Msg("not a git repository", "", "", <<>>))
            /\ pc' = "done"
            /\ UNCHANGED <<config, log>>
       ELSE /\ log' = Append(log, Op("load", file.state = "ok"))
            /\ config' = loadConfig(file)
            /\ IF loadConfig(file).kind = Null
               THEN /\ pc' = "done"
                    /\ output' = output
                          \o (IF file.state = "corrupt"
                              THEN <<Msg("config file unreadable", "", "", <<>>)>>
                              ELSE <<>>)
                          \o <<Msg("no config file, run init", "", "", <<>>)>>
               ELSE LET shown == StatusLines(loadConfig(file).platforms, remotes, 1)
                    IN  /\ pc' = IF shown.crashed THEN "crashed" ELSE "done"
                        /\ output' = output
                              \o <<Msg("status header", "", "", <<>>)>>
                              \o shown.lines
                              \o (IF shown.crashed
                                  THEN <<Msg("unhandled error", "",
                                             "TypeError: cannot read properties of undefined",
                                             <<>>)>>
                                  ELSE <<>>)
    /\ UNCHANGED <<cmd, yes, call, returned, options, currentBranch, branch, isRepo, remotes0, pass, file, remotes, k, enabledPlatforms, results>>

Next ==
    \/ CheckRepo
    \/ HandleUncommitted
    \/ LoadConfig
    \/ InitConfig
    \/ setupRemotes
    \/ AfterSetup
    \/ ConfirmPush
    \/ PushStep
    \/ ReportResults
    \/ showStatus

Spec == Init /\ [][Next]_vars

----------------------------------------------------------------------------
(* Two reconciliations in succession of one unchanged configuration *)

InitTwice ==
    /\ pc = "setup"
    /\ cmd = "push"
    /\ isRepo = TRUE
    /\ yes = FALSE
    /\ options = NoOptions
    /\ currentBranch = "feature"
    /\ branch = Undefined
    /\ call = NoCall
    /\ returned = NoCall
    /\ file \in {f \in Files : f.state = "ok"}
    /\ config = loadConfig(file)
    /\ remotes \in InitialRemotes
    /\ remotes0 = remotes
    /\ pass = 1
    /\ k = 1
    /\ enabledPlatforms = <<>>
    /\ results = [success |-> <<>>, failed |-> <<>>]
    /\ output = <<>>
    /\ log = <<>>

\* setupRemotes has returned true and is called again with the same config
ReconcileAgain ==
    /\ pc = "setup"
    /\ config.kind = "config"
    /\ k > Len(config.platforms)
    /\ pass = 1
    /\ pass' = 2
    /\ k' = 1
    /\ remotes0' = remotes
    /\ log' = <<>>
    /\ output' = Append(output, Msg("remotes configured", "", "", <<>>))
    /\ UNCHANGED <<pc, cmd, yes, call, returned, options, currentBranch, branch, isRepo, file, config, remotes, enabledPlatforms,
                   results>>

NextTwice ==
    \/ setupRemotes
    \/ ReconcileAgain

SpecTwice == InitTwice /\ [][NextTwice]_vars

----------------------------------------------------------------------------
(* The pushes of a run whose remotes are configured, under every choice of
   the branch argument and the flags *)

\* configurations of registry keys with at least one platform
PushConfigs ==
    {c \in FileConfigs :
        /\ c.platforms # <<>>
        /\ \A n \in DOMAIN c.platforms :
              /\ c.platforms[n].platform \in PlatformKeys
              /\ c.platforms[n].username = <<"a">>}

\* the bindings setupRemotes leaves when it returns true
Reconciled(c) ==
    [name \in RemoteNames |->
        IF \E n \in DOMAIN c.platforms :
              c.platforms[n].platform = name /\ c.platforms[n].enabled
        THEN (CHOOSE e \in {c.platforms[n] : n \in DOMAIN c.platforms} :
                  e.platform = name).url
        ELSE NoRemote]

InitPush ==
    /\ pc = "setup"
    /\ cmd = "push"
    /\ isRepo = TRUE
    /\ yes \in BOOLEAN
    /\ options \in Options
    /\ currentBranch \in BranchOutputs
    /\ branch = Undefined
    /\ call = NoCall
    /\ returned = NoCall
    /\ file \in {f \in Files : f.state = "ok" /\ f.config \in PushConfigs}
    /\ config = loadConfig(file)
    /\ remotes = Reconciled(config)
    /\ remotes0 = remotes
    /\ pass = 1
    /\ k = Len(config.platforms) + 1
    /\ enabledPlatforms = <<>>
    /\ results = [success |-> <<>>, failed |-> <<>>]
    /\ output = <<>>
    /\ log = <<>>

\* somebody checks out another branch while the run waits for the operator
\* or for a push
SwitchBranch ==
    /\ pc \in {"confirm", "push"}
    /\ k <= Len(enabledPlatforms)
    /\ currentBranch' \in BranchOutputs \ {currentBranch}
    /\ UNCHANGED <<pc, cmd, yes, call, returned, options, branch, isRepo, file, config, remotes,
                   remotes0, pass, k, enabledPlatforms, results, output, log>>

NextPush ==
    \/ AfterSetup
    \/ ConfirmPush
    \/ PushStep
    \/ ReportResults
    \/ SwitchBranch

SpecPush == InitPush /\ [][NextPush]_vars

----------------------------------------------------------------------------
(* A push run that is sent SIGINT.  The handler of bin/mgit-push.js is a
   callback of the event loop: it runs when the run waits in an await for a
   prompt or for a spawned push, and not while execSync blocks the loop. *)

\* configurations of SpecSigint: registry keys, one account
SigintFiles ==
    {f \in Files :
        /\ f.state = "ok"
        /\ \A n \in DOMAIN f.config.platforms :
              /\ f.config.platforms[n].platform \in PlatformKeys
              /\ f.config.platforms[n].username = <<"a">>}

\* the run has passed the repository check with a clean working tree
InitSigint ==
    /\ pc = "load"
    /\ cmd = "push"
    /\ isRepo = TRUE
    /\ yes \in BOOLEAN
    /\ options = NoOptions
    /\ currentBranch = "feature"
    /\ branch = Undefined
    /\ call = NoCall
    /\ returned = NoCall
    /\ file \in SigintFiles
    /\ config = NoConfig(Null)
    /\ remotes \in InitialRemotes
    /\ remotes0 = remotes
    /\ pass = 1
    /\ k = 0
    /\ enabledPlatforms = <<>>
    /\ results = [success |-> <<>>, failed |-> <<>>]
    /\ output = <<>>
    /\ log = <<>>

\* the process has been sent SIGINT
SigintReceived == \E n \in DOMAIN log : log[n].op = "SIGINT"

\* ... and its handler has not run yet
SigintPending == SigintReceived /\ pc # "exited"

\* process.on("SIGINT"): print and process.exit(0)
Cancel ==
    /\ output' = Append(output, Msg("operation cancelled", "", "", <<>>))
    /\ pc' = "exited"

\* SIGINT arrives while an execSync of setupRemotes blocks: the command
\* logged last was running (whether git was interrupted as well shows in
\* its outcome), the handler has to wait
SigintDuringSetup ==
    /\ ~SigintReceived
    /\ pc \in {"setup", "done"}
    /\ log # <<>>
    /\ log[Len(log)].op \in {"add", "set-url"}
    /\ log' = Append(log, Op("SIGINT", TRUE))
    /\ UNCHANGED <<pc, cmd, yes, call, returned, options, currentBranch, branch,
                   isRepo, file, config, remotes, remotes0, pass, k,
                   enabledPlatforms, results, output>>

\* SIGINT arrives while the run waits for the answer to the confirmation
SigintDuringConfirm ==
    /\ ~SigintReceived
    /\ pc = "confirm"
    /\ log' = Append(log, Op("SIGINT", TRUE))
    /\ Cancel
    /\ UNCHANGED <<cmd, yes, call, returned, options, currentBranch, branch, isRepo,
                   file, config, remotes, remotes0, pass, k, enabledPlatforms,
                   results>>

\* SIGINT arrives while the run waits for a spawned push: the push has been
\* started and ends in some way the run no longer learns
SigintDuringPush ==
    /\ ~SigintReceived
    /\ pc = "push"
    /\ k <= Len(enabledPlatforms)
    /\ \E exit \in PushOutcomes :
          log' = log \o <<PushOp(enabledPlatforms[k], exit.code, exit.stderr),
                          Op("SIGINT", TRUE)>>
    /\ Cancel
    /\ UNCHANGED <<cmd, yes, call, returned, options, currentBranch, branch, isRepo,
                   file, config, remotes, remotes0, pass, k, enabledPlatforms,
                   results>>

\* the handler of a SIGINT that arrived during an execSync runs at the next
\* await: at the confirmation prompt, after the spawn of the next push, or
\* when pushToAll has returned
HandleSigint ==
    /\ SigintPending
    /\ \/ /\ pc \in {"confirm", "done"}
          /\ UNCHANGED log
       \/ /\ pc = "push"
          /\ k <= Len(enabledPlatforms)
          /\ \E exit \in PushOutcomes :
                log' = Append(log, PushOp(enabledPlatforms[k], exit.code,
                                          exit.stderr))
    /\ Cancel
    /\ UNCHANGED <<cmd, yes, call, returned, options, currentBranch, branch, isRepo,
                   file, config, remotes, remotes0, pass, k, enabledPlatforms,
                   results>>

\* the steps of pushToAll; those that wait in an await do not go on once
\* SIGINT is pending
NextSigint ==
    \/ LoadConfig
    \/ setupRemotes
    \/ AfterSetup
    \/ ReportResults
    \/ (~SigintPending /\ ConfirmPush)
    \/ (~SigintPending /\ PushStep)
    \/ SigintDuringSetup
    \/ SigintDuringConfirm
    \/ SigintDuringPush
    \/ HandleSigint

SpecSigint == InitSigint /\ [][NextSigint]_vars

----------------------------------------------------------------------------
(* The functions of the wizard on their own: parseRepoInfo, analyzeRepo and
   the `init` command, each given inputs drawn from bounded sets *)

\* names the wizard reads or is given: every string of at most MaxLen of
\* these characters, and the two placeholders of the templates
NameChars == {"a", "$", "&"}

NamePool ==
    UNION {[1..n -> NameChars] : n \in 1..MaxLen}
    \cup {<<"{repo}">>, <<"{username}">>}

\* URLs of remotes: scp-like and https, registered hosts (one of them in
\* capitals) and a foreign one, with and without account, with and without
\* the .git suffix
Urls ==
    {prefix \o <<host, sep>> \o account \o <<"/">> \o repo \o suffix :
        prefix \in {<<"git@">>, <<"https://">>},
        host \in {"github.com", "GitHub.com", "gitee.com", "gitlab.com",
                  "gitcode.com", "example.org"},
        sep \in {":", "/"},
        account \in NamePool \cup {<<>>},
        repo \in NamePool,
        suffix \in {<<>>, <<".", "git">>}}

\* the URLs of the bindings analyzeRepo is given
BindingUrls ==
    {<<"git@", "github.com", ":", "alice", "/", "proj", ".", "git">>,
     <<"https://", "github.com", "/", "bob", "/", "other", ".", "git">>,
     <<"git@", "gitee.com", ":", "carol", "/", "proj", ".", "git">>,
     <<"git@", "example.org", ":", "x", "/", "y", ".", "git">>}

\* a remote as getRemotes() holds it: remotes[name] = {fetch, push}; <<>> is
\* a type `git remote -v` printed no line for
Bindings ==
    {[name |-> name, fetch |-> url, push |-> url] :
        name \in {"origin", "backup", "gitee"}, url \in BindingUrls}
    \cup
    {[name |-> name, fetch |-> <<>>,
      push |-> <<"git@", "github.com", ":", "alice", "/", "proj", ".", "git">>] :
        name \in {"origin", "backup", "gitee"}}

\* Object.entries(getRemotes()): the remotes in the order of the lines of
\* `git remote -v`, every name once
RemoteLists ==
    {list \in UNION {[1..n -> Bindings] : n \in 0..MaxBindings} :
        \A a, b \in DOMAIN list : list[a].name = list[b].name => a = b}

\* what getGitUserName() gives
GitUserNames == {<<"a">>, <<"$", "&">>}

\* the operator accepts the default of an input prompt
Default == <<"<enter>">>

\* what the operator answers to an input prompt
Answers == {Default, <<"b">>, <<"$", "&">>, <<"{repo}">>}

NotDiscovered == [username |-> <<>>, remoteName |-> "", url |-> <<>>]

\* urls.fetch || urls.push
BindingUrl(binding) ==
    IF binding.fetch # <<>> THEN binding.fetch ELSE binding.push

\* the platform entry analyzeRepo makes of a binding
Discovered(parsed, name, url) ==
    [username |-> parsed.username, remoteName |-> name, url |-> url]

\* analyzeRepo, one turn of its first loop for a remote, its URL and what
\* parseRepoInfo makes of it: the repository name of the first binding
\* that parses, the platform entry of the latest one
Discover(info, name, url, parsed) ==
    IF url = <<>> \/ parsed = NoMatch THEN info
    ELSE [repo |-> IF info.repo = <<>> THEN parsed.repo ELSE info.repo,
          platforms |->
              [info.platforms EXCEPT ![parsed.platform] =
                  Discovered(parsed, name, url)]]

RECURSIVE DiscoverAll(_, _, _)
\* for (const [name, urls] of Object.entries(remotes))
DiscoverAll(info, list, n) ==
    IF n > Len(list) THEN info
    ELSE DiscoverAll(Discover(info, list[n].name, BindingUrl(list[n]),
                              parseRepoInfo(BindingUrl(list[n]))),
                     list, n + 1)

\* analyzeRepo, one turn of its second loop: a remote named like a platform
\* that has no entry yet gives that platform the account its URL parses to
DiscoverNamed(info, platformName, named, url, parsed) ==
    IF /\ named
       /\ info.platforms[platformName] = NotDiscovered
       /\ url # <<>>
       /\ parsed # NoMatch
    THEN [info EXCEPT !.platforms[platformName] =
             Discovered(parsed, platformName, url)]
    ELSE info

\* the URL of the remote called name (<<>> when there is none)
UrlOf(list, name) ==
    IF \E i \in DOMAIN list : list[i].name = name
    THEN BindingUrl(list[CHOOSE i \in DOMAIN list : list[i].name = name])
    ELSE <<>>

RECURSIVE DiscoverByName(_, _, _)
\* Object.keys(PLATFORMS).forEach((platformName) => ...)
DiscoverByName(info, list, n) ==
    IF n > Len(PLATFORMS) THEN info
    ELSE DiscoverByName(
             DiscoverNamed(info, PLATFORMS[n],
                           \E i \in DOMAIN list : list[i].name = PLATFORMS[n],
                           UrlOf(list, PLATFORMS[n]),
                           parseRepoInfo(UrlOf(list, PLATFORMS[n]))),
             list, n + 1)

\* if (!info.repo) info.repo = path.basename(process.cwd())
RepoInfo(found, gitUserName, directory) ==
    [repo |-> IF found.repo = <<>> THEN directory ELSE found.repo,
     platforms |-> found.platforms,
     gitUserName |-> gitUserName]

\* analyzeRepo(): the repository name and the account of each platform, as
\* the remotes tell them; the directory name when no remote tells a name
analyzeRepo(list, gitUserName, directory) ==
    RepoInfo(DiscoverByName(
                 DiscoverAll([repo |-> <<>>,
                              platforms |-> [key \in PlatformKeys |-> NotDiscovered]],
                             list, 1),
                 list, 1),
             gitUserName, directory)

\* a default that is always the git user name
ProposedAccount_GitUserName(info, platform) == info.gitUserName

\* initConfig: the default of the account prompt of a platform
ProposedAccount(info, platform) ==
    IF info.platforms[platform].username # <<>>
    THEN info.platforms[platform].username
    ELSE info.gitUserName

\* the value of an input prompt: what was typed, or its default
Answer(typed, default) == IF typed = Default THEN default ELSE typed

\* the record a previous `init` left: github under another account
Persisted ==
    [state |-> "ok",
     config |-> Config(<<"p">>, <<PlatformConfig("github", TRUE, <<"o", "'">>, <<"p">>)>>)]

\* the remotes of the working copies `init` is run in: none, or one remote
\* with a fetch URL
WizardRemoteLists ==
    {list \in RemoteLists : Len(list) <= 1 /\ \A n \in DOMAIN list : list[n].fetch # <<>>}

\* the keys of a selection
Selected(selected) == {selected[n] : n \in DOMAIN selected}

\* the answers of a wizard: an account is asked for each selected
\* platform, unless one account serves all
WizardAnswers(consistent, selected) ==
    IF consistent THEN {[key \in Selected(selected) |-> Default]}
    ELSE [Selected(selected) -> Answers]

InitCallsSpec ==
    /\ \/ \E url \in Urls : call = [fn |-> "parseRepoInfo", url |-> url]
       \/ \E list \in RemoteLists, name \in GitUserNames :
              call = [fn |-> "analyzeRepo", remotes |-> list, gitUserName |-> name,
                      directory |-> <<"workdir">>]
       \/ \E list \in WizardRemoteLists, name \in GitUserNames,
             consistent \in BOOLEAN, repo \in {Default, <<"$", "&">>},
             selected \in Selections, saveOk \in BOOLEAN,
             persisted \in {[state |-> "missing", config |-> NoConfig(Null)],
                            Persisted} :
              \E answers \in WizardAnswers(consistent, selected) :
                  call = [fn |-> "initConfig", remotes |-> list,
                          gitUserName |-> name, directory |-> <<"workdir">>,
                          consistent |-> consistent, repo |-> repo,
                          selected |-> selected, answers |-> answers,
                          saveOk |-> saveOk, persisted |-> persisted]
    /\ returned = NoCall
    /\ pc = "start"
    /\ cmd = IF call.fn = "initConfig" THEN "init" ELSE "none"
    /\ isRepo = TRUE
    /\ yes = FALSE
    /\ options = NoOptions
    /\ currentBranch = "feature"
    /\ branch = Undefined
    /\ file = IF call.fn = "initConfig" THEN call.persisted
              ELSE [state |-> "missing", config |-> NoConfig(Null)]
    /\ config = NoConfig(Null)
    /\ remotes = [name \in RemoteNames |-> NoRemote]
    /\ remotes0 = remotes
    /\ pass = 1
    /\ k = 0
    /\ enabledPlatforms = <<>>
    /\ results = [success |-> <<>>, failed |-> <<>>]
    /\ output = <<>>
    /\ log = <<>>

\* parseRepoInfo(url)
CallParseRepoInfo ==
    /\ pc = "start" /\ call.fn = "parseRepoInfo"
    /\ returned' = parseRepoInfo(call.url)
    /\ pc' = "done"
    /\ UNCHANGED <<cmd, yes, call, options, currentBranch, branch, isRepo, file,
                   config, remotes, remotes0, pass, k, enabledPlatforms, results,
                   output, log>>

\* analyzeRepo()
CallAnalyzeRepo ==
    /\ pc = "start" /\ call.fn = "analyzeRepo"
    /\ returned' = analyzeRepo(call.remotes, call.gitUserName, call.directory)
    /\ pc' = "done"
    /\ UNCHANGED <<cmd, yes, call, options, currentBranch, branch, isRepo, file,
                   config, remotes, remotes0, pass, k, enabledPlatforms, results,
                   output, log>>

\* initConfig, from analyzeRepo's result and the answers to what it returns,
\* with the defaults it proposed on the way
Wizard(c, repoInfo) ==
    [repoInfo |-> repoInfo,
     defaults |-> IF c.consistent THEN <<>>
                  ELSE [key \in Selected(c.selected) |->
                           ProposedAccount(repoInfo, key)],
     config |-> InitResult(repoInfo.gitUserName, c.consistent,
                           Answer(c.repo, repoInfo.repo), c.selected,
                           [key \in PlatformKeys |->
                               IF key \in Selected(c.selected)
                               THEN Answer(c.answers[key],
                                           ProposedAccount(repoInfo, key))
                               ELSE <<>>])]

\* a wizard that writes the new platforms over the record it finds and
\* keeps the platforms of that record which were not selected
InitEffects_KeepsOthers(w, saveOk) ==
    /\ returned' = [repoInfo |-> w.repoInfo, defaults |-> w.defaults]
    /\ config' = w.config
    /\ IF w.config.kind = Undefined
       THEN /\ output' = Append(output,
                            Msg("select at least one platform", "", "", <<>>))
            /\ log' = Append(log, Op("init", FALSE))
            /\ UNCHANGED file
       ELSE /\ log' = log \o <<Op("init", TRUE), Op("save", saveOk)>>
            /\ IF saveOk
               THEN /\ file' =
                          [state |-> "ok",
                           config |->
                              Config(w.config.repository,
                                     w.config.platforms
                                     \o SelectSeq(file.config.platforms,
                                            LAMBDA e :
                                               \A n \in DOMAIN w.config.platforms :
                                                  w.config.platforms[n].platform
                                                     # e.platform))]
                    /\ output' = Append(output, Msg("config saved", "", "", <<>>))
               ELSE /\ output' = Append(output,
                                    Msg("config save failed", "", "", <<>>))
                    /\ UNCHANGED file

\* initConfig: what it prints, saves and returns
InitEffects(w, saveOk) ==
    /\ returned' = [repoInfo |-> w.repoInfo, defaults |-> w.defaults]
    /\ config' = w.config
    /\ IF w.config.kind = Undefined
       THEN /\ output' = Append(output,
                            Msg("select at least one platform", "", "", <<>>))
            /\ log' = Append(log, Op("init", FALSE))
            /\ UNCHANGED file
       ELSE /\ log' = log \o <<Op("init", TRUE), Op("save", saveOk)>>
            /\ IF saveOk
               THEN /\ file' = [state |-> "ok", config |-> w.config]
                    /\ output' = Append(output, Msg("config saved", "", "", <<>>))
               ELSE /\ output' = Append(output,
                                    Msg("config save failed", "", "", <<>>))
                    /\ UNCHANGED file

\* `mgit init` / `mgit config`: initConfig() with the answers of the call
initConfig ==
    /\ pc = "start" /\ call.fn = "initConfig"
    /\ InitEffects(Wizard(call, analyzeRepo(call.remotes, call.gitUserName,
                                            call.directory)),
                   call.saveOk)
    /\ pc' = "done"
    /\ UNCHANGED <<cmd, yes, call, options, currentBranch, branch, isRepo, remotes,
                   remotes0, pass, k, enabledPlatforms, results>>

NextCalls ==
    \/ CallParseRepoInfo
    \/ CallAnalyzeRepo
    \/ initConfig

SpecCalls == InitCallsSpec /\ [][NextCalls]_vars

----------------------------------------------------------------------------
(* The pushes of a run with the spawn of git and its close event as two
   steps: pushToRemote returns a promise that settles when the child
   process closes, and pushToAll awaits it *)

\* spawn("git", args): a push has been started
SpawnOp(name) ==
    [op |-> "spawn", name |-> name, arg |-> PushArgs(name, branch, options),
     ok |-> TRUE, fault |-> FALSE, code |-> 0, stderr |-> ""]

\* the endpoints whose git push has been spawned and has not closed
InFlight ==
    {name \in RemoteNames :
        Cardinality({n \in DOMAIN log : log[n].op = "spawn" /\ log[n].name = name})
        > Cardinality({n \in DOMAIN log : log[n].op = "push" /\ log[n].name = name})}

\* a loop that goes on to the next platform without waiting for the promise
AfterSpawn_NoAwait(n) == [pc |-> "push", k |-> n + 1]

\* `await pushToRemote(...)`: the loop waits for the promise to settle
AfterSpawn(n) == [pc |-> "awaiting", k |-> n]

\* pushToAll: one turn of the loop up to the await; pushToRemote has spawned
\* git and returned its promise
SpawnPush ==
    /\ pc = "push"
    /\ k <= Len(enabledPlatforms)
    /\ enabledPlatforms[k] \in PlatformKeys
    /\ log' = Append(log, SpawnOp(enabledPlatforms[k]))
    /\ pc' = AfterSpawn(k).pc
    /\ k' = AfterSpawn(k).k
    /\ UNCHANGED <<cmd, yes, call, returned, options, currentBranch, branch,
                   isRepo, file, config, remotes, remotes0, pass,
                   enabledPlatforms, results, output>>

\* git.on("close"): the promise settles and the turn of the loop that
\* awaited it records the outcome
PushClose ==
    /\ pc = "awaiting"
    /\ \E platform \in InFlight, exit \in PushOutcomes :
        LET outcome == pushToRemote(exit.code, exit.stderr)
        IN  /\ platform = enabledPlatforms[k]
            /\ log' = Append(log, PushOp(platform, exit.code, exit.stderr))
            /\ results' = RecordPush(results, platform, outcome)
            /\ output' = Append(output,
                  Msg(IF outcome.ok THEN "push succeeded" ELSE "push failed",
                      platform, "", <<>>))
            /\ pc' = AfterPush(outcome, k).pc
            /\ k' = AfterPush(outcome, k).k
    /\ UNCHANGED <<cmd, yes, call, returned, options, currentBranch, branch,
                   isRepo, file, config, remotes, remotes0, pass,
                   enabledPlatforms>>

NextFlight ==
    \/ LoadConfig
    \/ setupRemotes
    \/ AfterSetup
    \/ ConfirmPush
    \/ SpawnPush
    \/ PushClose
    \/ ReportResults

SpecFlight == InitSigint /\ [][NextFlight]_vars

----------------------------------------------------------------------------
(* The reconciliation of configurations whose keys need not be registry
   keys: .mgit-push.json is a file of the working copy and JSON.parse takes
   any string as a key *)

\* keys of the configurations of SpecKeys
FileKeys == {"github", "gitee", InjectingKey}

\* the configurations of SpecKeys: one account, keys from FileKeys
KeyConfigs ==
    UNION {{Config(<<"p">>,
                   [n \in 1..Len(ks) |->
                       PlatformConfig(ks[n], en[n], <<"a">>, <<"p">>)])
             : en \in [1..Len(ks) -> BOOLEAN]}
           : ks \in {s \in UNION {[1..n -> FileKeys] : n \in 0..MaxPlatforms} :
                        Injective(s)}}

\* pushToAll has loaded the configuration and calls setupRemotes
InitKeys ==
    /\ pc = "setup"
    /\ cmd = "push"
    /\ isRepo = TRUE
    /\ yes = TRUE
    /\ options = NoOptions
    /\ currentBranch = "feature"
    /\ branch = Undefined
    /\ call = NoCall
    /\ returned = NoCall
    /\ config \in KeyConfigs
    /\ file = [state |-> "ok", config |-> config]
    /\ remotes \in InitialRemotes
    /\ remotes0 = remotes
    /\ pass = 1
    /\ k = 1
    /\ enabledPlatforms = <<>>
    /\ results = [success |-> <<>>, failed |-> <<>>]
    /\ output = <<>>
    /\ log = <<>>

NextKeys ==
    \/ setupRemotes
    \/ AfterSetup

SpecKeys == InitKeys /\ [][NextKeys]_vars

----------------------------------------------------------------------------
(* Views of the state the properties read *)

Indices(seq) == DOMAIN seq

\* the add/set-url requests of the reconciliation, in order
RemoteOps == SelectSeq(log, LAMBDA op : op.op \in {"add", "set-url"})

\* the push attempts, in order
PushOps == SelectSeq(log, LAMBDA op : op.op = "push")

Names(ops) == [n \in 1..Len(ops) |-> ops[n].name]

Shown(msg) == \E n \in Indices(output) : output[n].msg = msg

IsPrefix(s, t) == Len(s) <= Len(t) /\ \A n \in 1..Len(s) : s[n] = t[n]

Occurrences(seq, x) == Cardinality({n \in Indices(seq) : seq[n] = x})

\* setupRemotes has returned true in this run
ReconcileOk ==
    /\ config.kind = "config"
    /\ \/ pc = "setup" /\ k > Len(config.platforms)
       \/ pc \in {"confirm", "push"}
       \/ pc = "done" /\ Shown("remotes configured")

\* the place of a platform in Object.entries(config.platforms)
ConfigIndex(platform) ==
    CHOOSE e \in Indices(config.platforms) :
        config.platforms[e].platform = platform

Bound(rem) == {name \in RemoteNames : rem[name] # NoRemote}

----------------------------------------------------------------------------
(* Properties *)

\* C1: once the push loop is entered every enabled platform is attempted,
\* whatever the outcomes: inside the loop the attempts made are exactly the
\* platforms before the current one, a finished run that pushed at all has
\* attempted all of them and printed the report, no run crashes once the
\* enabled platforms are known, and every failed attempt is in results.failed.
C1_EveryPlatformIsAttempted ==
    /\ pc = "push" => Names(PushOps) = SubSeq(enabledPlatforms, 1, k - 1)
    /\ pc = "crashed" => enabledPlatforms = <<>>
    /\ pc = "done" /\ PushOps # <<>> =>
          Names(PushOps) = enabledPlatforms /\ Shown("push results")
    /\ pc = "done" /\ PushOps = <<>> /\ enabledPlatforms # <<>> =>
          output[Len(output)].msg = "push cancelled"
    /\ \A n \in Indices(PushOps) :
          ~PushOps[n].ok =>
              \E m \in Indices(results.failed) :
                  results.failed[m].platform = PushOps[n].name

\* C1 witness: a finished run of two platforms whose first push failed
C1_Witness ==
    /\ pc = "done"
    /\ Len(PushOps) = 2
    /\ ~PushOps[1].ok
    /\ results.failed[1].platform = enabledPlatforms[1]

\* C2: a run in which setupRemotes failed makes no push attempt, and a push
\* attempt is made only after every enabled platform of the configuration
\* has had its add/set-url succeed in the same run.
C2_NoPushUnlessReconciled ==
    /\ Shown("setup failed") => PushOps = <<>> /\ pc = "done"
    /\ (\E n \in Indices(RemoteOps) : ~RemoteOps[n].ok) => PushOps = <<>>
    /\ pc = "push" \/ PushOps # <<>> =>
          \A e \in Indices(config.platforms) :
              config.platforms[e].enabled =>
                  \E n \in Indices(log) :
                      /\ log[n].op \in {"add", "set-url"}
                      /\ log[n].name = config.platforms[e].platform
                      /\ log[n].arg = config.platforms[e].url
                      /\ log[n].ok
                      /\ \A m \in Indices(log) : log[m].op = "push" => n < m

\* C2 witness: reconciliation failed at the second of two enabled platforms
C2_Witness ==
    /\ pc = "done"
    /\ Shown("setup failed")
    /\ Len(EnabledPlatforms(config)) = 2
    /\ Len(RemoteOps) = 2

\* C3: the add/set-url requests follow the enabled platforms in configuration
\* order, each with the configured URL; a failed request is the last one,
\* ends the run and is reported with its platform and the tool's error; the
\* platforms reconciled before it keep their configured URLs.
C3_StopsAtFirstFailure ==
    /\ RemoteOps # <<>> =>
          /\ config.kind = "config"
          /\ IsPrefix(Names(RemoteOps), EnabledPlatforms(config))
    /\ \A n \in Indices(RemoteOps) :
          /\ \E e \in Indices(config.platforms) :
                /\ config.platforms[e].platform = RemoteOps[n].name
                /\ config.platforms[e].url = RemoteOps[n].arg
          /\ RemoteOps[n].ok => remotes[RemoteOps[n].name] = RemoteOps[n].arg
          /\ ~RemoteOps[n].ok =>
                /\ n = Len(RemoteOps)
                /\ pc = "done"
                /\ output[Len(output)] =
                      Msg("setup failed", RemoteOps[n].name,
                          "Command failed: git remote " \o RemoteOps[n].op, <<>>)

\* C3 witness: the second request failed after the first had succeeded
C3_Witness ==
    /\ Len(RemoteOps) = 2
    /\ RemoteOps[1].ok
    /\ ~RemoteOps[2].ok
    /\ remotes[RemoteOps[1].name] = config.platforms[1].url

\* C4: after setupRemotes returned true every enabled platform has a binding
\* of its own name at its configured URL; a name bound before was repointed
\* (set-url) and a name not bound before was added, one request per platform,
\* and the bound names are those bound before plus the enabled platforms.
C4_ReconcileBindsEveryEnabledPlatform ==
    ReconcileOk =>
        /\ \A e \in Indices(config.platforms) :
              config.platforms[e].enabled =>
                  remotes[config.platforms[e].platform] = config.platforms[e].url
        /\ Bound(remotes) =
              Bound(remotes0) \cup {config.platforms[e].platform :
                                      e \in {i \in Indices(config.platforms) :
                                                config.platforms[i].enabled}}
        /\ Names(RemoteOps) = EnabledPlatforms(config)
        /\ \A n \in Indices(RemoteOps) :
              RemoteOps[n].op = IF remotes0[RemoteOps[n].name] # NoRemote
                                THEN "set-url" ELSE "add"

\* C4 witness: github was bound to a stale URL and is repointed, gitee was
\* not bound and is added, with an account name that holds a quote
C4_Witness ==
    /\ ReconcileOk
    /\ EnabledPlatforms(config) = <<"github", "gitee">>
    /\ remotes0["github"] = StaleURL
    /\ remotes0["gitee"] = NoRemote
    /\ remotes["github"] = RenderURL("github", <<"o", "'">>, <<"p">>)
    /\ remotes["gitee"] = RenderURL("gitee", <<"o", "'">>, <<"p">>)

\* C5: a second reconciliation of the same configuration, run after the first
\* returned true, changes no binding: it only repoints (set-url) to the URL
\* already bound, and it fails only when the tool itself faults.
C5_ReconcileIsIdempotent ==
    pass = 2 =>
        /\ remotes = remotes0
        /\ \A n \in Indices(RemoteOps) :
              /\ RemoteOps[n].op = "set-url"
              /\ remotes0[RemoteOps[n].name] = RemoteOps[n].arg
              /\ ~RemoteOps[n].ok => RemoteOps[n].fault
        /\ pc = "done" => \E n \in Indices(RemoteOps) : RemoteOps[n].fault

\* C5 witness: the second reconciliation of two enabled platforms, one of
\* them added by the first, has returned true
C5_Witness ==
    /\ pass = 2
    /\ pc = "setup"
    /\ k > Len(config.platforms)
    /\ Len(RemoteOps) = 2
    /\ \E n \in Indices(output) : output[n].msg = "remotes configured"
    /\ remotes # [name \in RemoteNames |-> NoRemote]

\* C6: the pushes are attempted in the order of the enabled platforms of the
\* configuration; results.success and results.failed list their platforms in
\* the order of the attempts, and the report prints these lists as they are.
C6_ReportKeepsAttemptOrder ==
    /\ \A n \in Indices(PushOps) :
          /\ config.platforms[ConfigIndex(PushOps[n].name)].enabled
          /\ \A e \in 1..(ConfigIndex(PushOps[n].name) - 1) :
                config.platforms[e].enabled =>
                    \E m \in 1..(n - 1) :
                        PushOps[m].name = config.platforms[e].platform
    /\ results.success = Names(SelectSeq(PushOps, LAMBDA op : op.ok))
    /\ FailedNames(results.failed) = Names(SelectSeq(PushOps, LAMBDA op : ~op.ok))
    /\ \A n \in Indices(output) :
          /\ output[n].msg = "succeeded" =>
                output[n].list = Names(SelectSeq(PushOps, LAMBDA op : op.ok))
          /\ output[n].msg = "failed" =>
                output[n].list = Names(SelectSeq(PushOps, LAMBDA op : ~op.ok))

\* C6 witness: a report of two failed pushes
C6_Witness ==
    /\ pc = "done"
    /\ Len(results.failed) = 2
    /\ \E n \in Indices(output) : output[n].msg = "failed" /\ Len(output[n].list) = 2

\* the push loop has ended
LoopFinished ==
    \/ pc = "push" /\ k > Len(enabledPlatforms)
    \/ Shown("push results")

\* C7: when the push loop has ended every enabled platform is once in
\* results.success or once in results.failed, never in both: in success iff
\* git exited with 0, otherwise in failed with the message of the rejection.
\* With [github, gitee], github pushed and gitee refused with "permission
\* denied", results is {success: [github], failed: [(gitee, message)]}.
C7_EachAttemptInExactlyOneList ==
    LoopFinished =>
        /\ \A e \in Indices(enabledPlatforms) :
              \E n \in Indices(PushOps) : PushOps[n].name = enabledPlatforms[e]
        /\ \A n \in Indices(PushOps) :
              LET p == PushOps[n].name
              IN  /\ Occurrences(results.success, p)
                        + Occurrences(FailedNames(results.failed), p) = 1
                  /\ PushOps[n].code = 0 <=> Occurrences(results.success, p) = 1
                  /\ PushOps[n].code # 0 =>
                        \E m \in Indices(results.failed) :
                            results.failed[m] =
                                [platform |-> p,
                                 error |-> PushErrorMessage(PushOps[n].stderr,
                                                            PushOps[n].code)]
        /\ (/\ Names(PushOps) = <<"github", "gitee">>
            /\ PushOps[1].code = 0
            /\ PushOps[2].code # 0
            /\ PushOps[2].stderr = "permission denied")
           => results = [success |-> <<"github">>,
                         failed |-> <<[platform |-> "gitee",
                                       error |-> "permission denied"]>>]

\* C7 witness: the scenario, with git writing to stderr on the successful push
C7_Witness ==
    /\ pc = "done"
    /\ PushOps = <<PushOp("github", 0, "Everything up-to-date"),
                   PushOp("gitee", 1, "permission denied")>>
    /\ results = [success |-> <<"github">>,
                  failed |-> <<[platform |-> "gitee", error |-> "permission denied"]>>]

\* C8: a failed push is shown at once with its platform, and the report
\* names every failed platform and prints, for each, the platform with the
\* text git wrote to stderr (with the exit code when git wrote nothing).
C8_EveryFailureIsShown ==
    \A n \in Indices(PushOps) :
        PushOps[n].code # 0 =>
            /\ \E m \in Indices(output) :
                  output[m] = Msg("push failed", PushOps[n].name, "", <<>>)
            /\ Shown("push results") =>
                  /\ \E m \in Indices(output) :
                        /\ output[m].msg = "failed"
                        /\ \E i \in Indices(output[m].list) :
                              output[m].list[i] = PushOps[n].name
                  /\ \E m \in Indices(output) :
                        output[m] =
                            Msg("failure detail", PushOps[n].name,
                                IF PushOps[n].stderr # "" THEN PushOps[n].stderr
                                ELSE "push failed, exit code: " \o ToString(PushOps[n].code),
                                <<>>)

\* C8 witness: a report that shows gitee's "permission denied"
C8_Witness ==
    /\ pc = "done"
    /\ \E m \in Indices(output) :
          output[m] = Msg("failure detail", "gitee", "permission denied", <<>>)
    /\ \E n \in Indices(PushOps) : PushOps[n].code # 0 /\ PushOps[n].stderr = ""

\* the push run has ended having found no enabled platform in the
\* configuration it loaded or got from initConfig
EndedWithoutPlatforms ==
    /\ cmd = "push"
    /\ pc \in {"done", "crashed"}
    /\ \/ config.kind = Undefined
       \/ config.kind = "config" /\ EnabledPlatforms(config) = <<>>

\* C9: a push run that finds no enabled platform ends with the "no enabled
\* platform" message as its last word, without a push and without a report.
C9_ZeroEnabledEndsWithNothingToPush ==
    EndedWithoutPlatforms =>
        /\ pc = "done"
        /\ output[Len(output)].msg = "no enabled platform"
        /\ PushOps = <<>>
        /\ ~Shown("push results")

\* C10: outside a repository a push run and a status run say so and do
\* nothing else: nothing is loaded, initialized, committed, bound or pushed.
C10_NotARepositoryStopsTheRun ==
    ~isRepo =>
        /\ pc \in {"start", "done"}
        /\ log = <<>>
        /\ remotes = remotes0
        /\ file.state = "missing"
        /\ config.kind = Null
        /\ output = IF pc = "done"
                    THEN <<Msg("not a git repository", "", "", <<>>)>> ELSE <<>>

\* C10 witness: a push run outside a repository has ended
C10_Witness ==
    /\ ~isRepo
    /\ cmd = "push"
    /\ pc = "done"

----------------------------------------------------------------------------
\* the positions of the operations named op in the log
OpsAt(op) == {n \in Indices(log) : log[n].op = op}

(* C11: in a push run a missing configuration file and an unreadable one are
   treated alike: the load gives null without an error, and the run goes
   into initConfig (and nowhere else) before any remote is touched. *)
C11_MissingAndCorruptBothInitialize ==
    /\ pc = "init" =>
          /\ config = NoConfig(Null)
          /\ output[Len(output)].msg = "no config file, initializing"
          /\ log[Len(log)] = Op("load", FALSE)
    /\ cmd = "push" =>
          \A n \in OpsAt("load") :
              ~log[n].ok =>
                  /\ pc \notin {"crashed", "done"} \/ OpsAt("init") # {}
                  /\ pc = "init" \/ (n < Len(log) /\ log[n + 1].op = "init")
                  /\ Shown("no config file, initializing")

\* an unreadable file has been loaded and the run is at the prompts of init
C11_Witness ==
    /\ pc = "init"
    /\ file.state = "corrupt"
    /\ Shown("config file unreadable")

(* C12: when saving the configuration fails during the initialization of a
   push run, the run ends there: no remote is configured and nothing is
   pushed with the configuration that was not saved. *)
C12_SaveFailureEndsTheRun ==
    \A n \in OpsAt("save") :
        ~log[n].ok =>
            /\ \A m \in Indices(log) :
                   m > n => log[m].op \notin {"add", "set-url", "push"}
            /\ pc \notin {"setup", "confirm", "push"}

\* the lines of the report, from its header on
ReportLines ==
    LET heads == {n \in Indices(output) : output[n].msg = "push results"}
    IN  IF heads = {} THEN <<>>
        ELSE SubSeq(output, CHOOSE n \in heads : TRUE, Len(output))

\* the lines of the report that open the section named msg
Sections(msg) == {n \in Indices(ReportLines) : ReportLines[n].msg = msg}

(* C16 (as the code has it): the report is determined by the results alone
   and keeps successes and failures in two distinct sections; a section is
   printed exactly when its list is not empty. *)
C16_SectionPrintedIffListNotEmpty ==
    Shown("push results") =>
        /\ Cardinality(Sections("succeeded")) =
              (IF results.success = <<>> THEN 0 ELSE 1)
        /\ Cardinality(Sections("failed")) =
              (IF results.failed = <<>> THEN 0 ELSE 1)
        /\ \A n \in Sections("succeeded") : ReportLines[n].list = results.success
        /\ \A n \in Sections("failed") :
              /\ ReportLines[n].list = FailedNames(results.failed)
              /\ \A m \in Sections("succeeded") : m < n
        /\ Len(ReportLines) =
              1 + (IF results.success = <<>> THEN 0 ELSE 1)
                + (IF results.failed = <<>> THEN 0 ELSE Len(results.failed) + 2)

\* a report of a run where every attempt failed: it has no section of successes
C16_Witness ==
    /\ Shown("push results")
    /\ results.success = <<>>
    /\ Len(results.failed) = 2
    /\ Sections("succeeded") = {}
    /\ Sections("failed") # {}

(* C16 (as stated): every report has both sections, also for an empty list. *)
C16_BothSectionsAlwaysPrinted ==
    Shown("push results") =>
        Sections("succeeded") # {} /\ Sections("failed") # {}


\* the `git branch --show-current` calls of the run
BranchOps == SelectSeq(log, LAMBDA op : op.op = "show-current")

\* the branch the run has to push: the argument when one is given, or else
\* what git printed as the current branch when it was asked, "main" when
\* that was nothing or an error
BranchToPush ==
    IF options.branch \notin {Undefined, ""} THEN options.branch
    ELSE IF BranchOps = <<>> THEN Undefined
    ELSE IF BranchOps[1].name \in {"", ExecError} THEN "main"
    ELSE BranchOps[1].name

(* C14: every push is `git push [--force] [--tags] <platform> <branch>`:
   --force exactly when the force flag is set, --tags exactly when the tags
   flag is set, the branch is the argument when given and the current
   branch (or "main") otherwise, and every platform of the run gets the
   same branch and flags. *)
C14_PushArguments ==
    /\ Len(BranchOps) <= 1
    /\ \A n \in Indices(PushOps) :
          LET arg == PushOps[n].arg
          IN  /\ arg[1] = "push"
              /\ arg[Len(arg) - 1] = enabledPlatforms[n]
              /\ arg[Len(arg)] = BranchToPush
              /\ ("--force" \in {arg[i] : i \in 2..(Len(arg) - 2)}) <=> options.force
              /\ ("--tags" \in {arg[i] : i \in 2..(Len(arg) - 2)}) <=> options.tags
              /\ Len(arg) = 3 + (IF options.force THEN 1 ELSE 0)
                              + (IF options.tags THEN 1 ELSE 0)
              /\ \A m \in Indices(PushOps) :
                    SubSeq(arg, 1, Len(arg) - 2)
                        = SubSeq(PushOps[m].arg, 1, Len(PushOps[m].arg) - 2)
                    /\ arg[Len(arg)] = PushOps[m].arg[Len(PushOps[m].arg)]

\* two platforms pushed with --tags from a detached HEAD, while the
\* checked-out branch changed in between
C14_Witness ==
    /\ Len(PushOps) = 2
    /\ options.tags /\ ~options.force
    /\ options.branch = ""
    /\ BranchOps # <<>> /\ BranchOps[1].name = ""
    /\ currentBranch = "feature"
    /\ PushOps[2].arg = <<"push", "--tags", enabledPlatforms[2], "main">>

\* the URL initConfig stores for what parseRepoInfo read from a URL
Rendered(parsed) == RenderURL(parsed.platform, parsed.username, parsed.repo)

(* C17: a URL that a pattern of PLATFORMS matches, parsed and rendered
   again with the account and repository name read from it, is matched by
   the pattern of the same platform, with the same account and repository
   name. *)
C17_ParseRenderParse ==
    (call.fn = "parseRepoInfo" /\ pc = "done") =>
        (returned # NoMatch =>
            /\ Match(returned.platform, Chars(Rendered(returned))) = returned
            /\ parseRepoInfo(Rendered(returned)) = returned)

RECURSIVE Substitute(_, _, _)
\* a template with the account in the place of {username} and the
\* repository name in the place of {repo}
Substitute(template, account, repo) ==
    IF template = <<>> THEN <<>>
    ELSE (CASE Head(template) = "{username}" -> account
            [] Head(template) = "{repo}" -> repo
            [] OTHER -> <<Head(template)>>)
         \o Substitute(Tail(template), account, repo)

\* `init` has run and made a configuration
WizardDone == call.fn = "initConfig" /\ pc = "done" /\ config.kind = "config"

(* C13: in the configuration initConfig makes, the URL of every platform
   is the template of the platform with the account of the entry and the
   repository name of the configuration in the places of its two
   placeholders, whatever the account and the name are. *)
C13_UrlIsTemplateOfAccountAndRepo ==
    WizardDone =>
        \A n \in DOMAIN config.platforms :
            config.platforms[n].url =
                Substitute(Template(config.platforms[n].platform),
                           config.platforms[n].username, config.repository)

\* analyzeRepo has run
AnalyzeDone == call.fn = "analyzeRepo" /\ pc = "done"

\* the remotes of the call whose URL (fetch, or else push) parses to key,
\* by their place in the enumeration
Matching(key) ==
    {i \in DOMAIN call.remotes :
        parseRepoInfo(BindingUrl(call.remotes[i])).platform = key}

\* the first place of a non-empty set of places
First(places) == CHOOSE i \in places : \A j \in places : i <= j

(* C18: analyzeRepo files each remote under the platform its fetch URL
   (its push URL when it has no fetch URL) parses to, and of several
   remotes of one platform it keeps the first of the enumeration. *)
C18_FirstBindingOfAPlatformIsKept ==
    AnalyzeDone =>
        \A key \in PlatformKeys :
            IF Matching(key) = {}
            THEN returned.platforms[key] = NotDiscovered
            ELSE LET binding == call.remotes[First(Matching(key))]
                 IN  returned.platforms[key] =
                         [username |-> parseRepoInfo(BindingUrl(binding)).username,
                          remoteName |-> binding.name,
                          url |-> BindingUrl(binding)]

\* the remotes of the call that parse to some platform
Parsing == UNION {Matching(key) : key \in PlatformKeys}

(* C19: the repository name analyzeRepo guesses is the one of the remote
   called origin when its URL parses, or else the one of the first remote
   of the enumeration that parses, or else the directory name; a single
   origin at git@github.com:alice/proj.git gives proj, and alice for
   github. *)
C19_RepoNameGuess ==
    AnalyzeDone =>
        LET origins == {i \in Parsing : call.remotes[i].name = "origin"}
        IN  /\ returned.repo =
                  IF origins # {}
                  THEN parseRepoInfo(BindingUrl(call.remotes[First(origins)])).repo
                  ELSE IF Parsing # {}
                  THEN parseRepoInfo(BindingUrl(call.remotes[First(Parsing)])).repo
                  ELSE call.directory
            /\ (/\ Len(call.remotes) = 1
                /\ call.remotes[1].name = "origin"
                /\ call.remotes[1].fetch =
                       <<"git@", "github.com", ":", "alice", "/", "proj", ".", "git">>)
               => /\ returned.repo = <<"proj">>
                  /\ returned.platforms["github"].username = <<"alice">>

\* the account of a platform in the record a previous init left (<<>> when
\* there is none)
PersistedAccount(key) ==
    LET entries == IF call.persisted.state = "ok"
                   THEN {call.persisted.config.platforms[n] :
                            n \in DOMAIN call.persisted.config.platforms}
                   ELSE {}
    IN  IF \E e \in entries : e.platform = key
        THEN (CHOOSE e \in entries : e.platform = key).username
        ELSE <<>>

\* the entry of the configuration for a platform
Entry(key) ==
    CHOOSE e \in {config.platforms[n] : n \in DOMAIN config.platforms} :
        e.platform = key

(* C20 (as the code has it): with one account for all, every selected
   platform gets the git user name and no account is proposed; otherwise
   the account proposed for a platform is the one analyzeRepo discovered
   for it, or else the git user name, and a record left by a previous init
   is not read; the platform gets the answer, the proposal when the
   operator just accepts. *)
C20_ProposedAccountIsDiscoveredOrGitUserName ==
    WizardDone =>
        IF call.consistent
        THEN /\ returned.defaults = <<>>
             /\ \A key \in Selected(call.selected) :
                   Entry(key).username = call.gitUserName
        ELSE \A key \in Selected(call.selected) :
                /\ returned.defaults[key] =
                      IF returned.repoInfo.platforms[key] # NotDiscovered
                      THEN returned.repoInfo.platforms[key].username
                      ELSE call.gitUserName
                /\ Entry(key).username =
                      IF call.answers[key] = Default THEN returned.defaults[key]
                      ELSE call.answers[key]

\* github is selected, no remote tells its account, a previous init left
\* another account for it, and the git user name is proposed
C20_Witness ==
    /\ WizardDone
    /\ ~call.consistent
    /\ "github" \in Selected(call.selected)
    /\ returned.repoInfo.platforms["github"] = NotDiscovered
    /\ PersistedAccount("github") = <<"o", "'">>
    /\ returned.defaults["github"] = call.gitUserName
    /\ call.answers["github"] = Default
    /\ Entry("github").username = call.gitUserName

(* C20 (as stated): with one account for all, every selected platform gets
   it; otherwise the account proposed for a platform is the one discovered
   for it, or else the one a previous init persisted for it, or else the
   git user name. *)
C20_ProposedAccountPrefersPersisted ==
    WizardDone =>
        IF call.consistent
        THEN \A key \in Selected(call.selected) :
                 Entry(key).username = call.gitUserName
        ELSE \A key \in Selected(call.selected) :
                 returned.defaults[key] =
                     IF returned.repoInfo.platforms[key] # NotDiscovered
                     THEN returned.repoInfo.platforms[key].username
                     ELSE IF PersistedAccount(key) # <<>>
                     THEN PersistedAccount(key)
                     ELSE call.gitUserName

(* C15: once SIGINT has arrived during a blocking step of a push run, no
   further `git remote` command and no further push is started and no
   report is printed. *)
C15_NothingStartsAfterSigint ==
    /\ \A n \in OpsAt("SIGINT") :
          \A m \in Indices(log) :
              m > n => log[m].op \notin {"add", "set-url", "push"}
    /\ SigintReceived => ~Shown("push results")

\* the entry of config.platforms a recorded request or attempt was made for
EntriesOf(name) ==
    IF config.kind # "config" THEN {}
    ELSE {e \in Indices(config.platforms) : config.platforms[e].platform = name}

\* C21: within a run no step is made twice: the log holds at most one push
\* attempt per endpoint and at most one add/set-url request per platform,
\* whether the step succeeded or failed, and every attempt and request is
\* for a platform whose entry in the configuration is enabled, so a platform
\* with enabled = false receives neither.
C21_NoRetryInsideARun ==
    /\ \A i, j \in Indices(PushOps) :
          PushOps[i].name = PushOps[j].name => i = j
    /\ \A i, j \in Indices(RemoteOps) :
          RemoteOps[i].name = RemoteOps[j].name => i = j
    /\ \A n \in Indices(log) :
          log[n].op \in {"add", "set-url", "push"} =>
              /\ EntriesOf(log[n].name) # {}
              /\ \A e \in EntriesOf(log[n].name) : config.platforms[e].enabled

\* C21 witness: a finished run over one enabled and one disabled platform in
\* which the only push attempt failed
C21_Witness ==
    /\ pc = "done"
    /\ Len(config.platforms) = 2
    /\ ~config.platforms[1].enabled
    /\ config.platforms[2].enabled
    /\ Len(RemoteOps) = 1
    /\ Len(PushOps) = 1
    /\ ~PushOps[1].ok
    /\ Shown("push results")

\* the spawns of git push, as places of the log
Spawns == {n \in Indices(log) : log[n].op = "spawn"}

\* the endpoints the report holds, in either list
Reported ==
    {results.success[n] : n \in Indices(results.success)}
    \cup {results.failed[n].platform : n \in Indices(results.failed)}

\* C22: execution is strictly sequential: at most one push is in flight at
\* any time, and only while the loop awaits it; no add/set-url or branch
\* query is made once a push has been spawned; a push is spawned only after
\* every push spawned before it has closed; and every push that has closed
\* is in the report, so the report holds the previous outcome when the next
\* push starts.
C22_StrictlySequential ==
    /\ Cardinality(InFlight) <= 1
    /\ pc # "awaiting" => InFlight = {}
    /\ pc = "awaiting" => InFlight = {enabledPlatforms[k]}
    /\ \A n \in Indices(log) :
          log[n].op \in {"add", "set-url", "show-current"} =>
              \A m \in Spawns : n < m
    /\ \A m, n \in Spawns :
          m < n => \E c \in Indices(log) :
                      /\ m < c /\ c < n
                      /\ log[c].op = "push"
                      /\ log[c].name = log[m].name
    /\ \A n \in Spawns : log[n].name \notin InFlight => log[n].name \in Reported
    /\ \A name \in InFlight : name \notin Reported

\* C22 witness: the second push is in flight after the first one closed
\* with a failure that the report holds
C22_Witness ==
    /\ pc = "awaiting"
    /\ k = 2
    /\ Cardinality(Spawns) = 2
    /\ InFlight = {enabledPlatforms[2]}
    /\ Len(results.failed) = 1
    /\ results.failed[1].platform = enabledPlatforms[1]

\* C23: the operator gates a push run.  The confirmation is asked at most
\* once, only without --yes, after setupRemotes has returned true (every
\* enabled platform has had its request succeed) and before any push;
\* without --yes no push is made unless it was answered with yes, and with
\* --yes it is not asked; when it is declined the run ends with no push
\* attempt.  When the operator cancels at the uncommitted-changes prompt, or
\* the commit fails, the run ends there: no configuration is loaded, no
\* remote is changed and nothing is pushed.
C23_OperatorGating ==
    /\ \A n \in OpsAt("ask-confirm") :
          /\ ~yes
          /\ OpsAt("ask-confirm") = {n}
          /\ Shown("remotes configured")
          /\ \A m \in Indices(log) : log[m].op \in {"add", "set-url"} =>
                m < n /\ log[m].ok
          /\ Names(RemoteOps) = EnabledPlatforms(config)
          /\ \A m \in OpsAt("push") : n < m
          /\ log[n].name = "no" =>
                /\ pc = "done"
                /\ PushOps = <<>>
                /\ n = Len(log)
                /\ output[Len(output)].msg = "push cancelled"
    /\ PushOps # <<>> /\ ~yes =>
          \E n \in OpsAt("ask-confirm") : log[n].name = "yes"
    /\ \A n \in Indices(log) :
          \/ log[n].op = "ask-uncommitted" /\ log[n].name = "cancel"
          \/ log[n].op = "commit" /\ ~log[n].ok
          => /\ pc = "done"
             /\ n = Len(log)
             /\ \A m \in Indices(log) : log[m].op \notin {"load", "init", "save", "add", "set-url",
                                                      "show-current", "push"}
             /\ config = NoConfig(Null)
             /\ remotes = remotes0
             /\ output[Len(output)].msg \in {"push cancelled", "commit failed"}

\* C23 witness: the operator declined the confirmation after both enabled
\* platforms had been reconciled, and no push was made
C23_Witness ==
    /\ pc = "done"
    /\ ~yes
    /\ Len(RemoteOps) = 2
    /\ \E n \in OpsAt("ask-confirm") : log[n].name = "no"
    /\ PushOps = <<>>

\* C24: reconciliation changes only bindings named by the key of an enabled
\* platform: every other name is bound to the URL it was bound to before
\* (or to none, as before), whether setupRemotes returns true or false, and
\* no name bound before is left without a binding.
C24_ReconcileChangesOnlyEnabledPlatforms ==
    /\ \A name \in RemoteNames :
          (\A e \in Indices(config.platforms) :
              config.platforms[e].enabled => config.platforms[e].platform # name)
          => remotes[name] = remotes0[name]
    /\ \A name \in RemoteNames :
          remotes0[name] # NoRemote => remotes[name] # NoRemote

\* C25: initialization replaces the persisted record as a whole.  When at
\* least one platform is selected and the save succeeds, the platforms of
\* the saved record are exactly the selected ones, in the order of the
\* selection, each enabled, so a platform of the previous record that is not
\* selected is absent; the record is the configuration initConfig returns.
\* When no platform is selected nothing is saved and the file is as it was.
C25_InitReplacesTheRecord ==
    call.fn = "initConfig" /\ pc = "done" =>
        IF call.selected = <<>>
        THEN /\ file = call.persisted
             /\ OpsAt("save") = {}
             /\ config.kind = Undefined
        ELSE /\ OpsAt("save") # {}
             /\ call.saveOk =>
                   /\ file.state = "ok"
                   /\ file.config = config
                   /\ Len(file.config.platforms) = Len(call.selected)
                   /\ \A n \in Indices(call.selected) :
                         /\ file.config.platforms[n].platform = call.selected[n]
                         /\ file.config.platforms[n].enabled = TRUE

\* C25 witness: the previous record held github only; gitee and gitlab are
\* selected and saved, and github is not in the saved record
C25_Witness ==
    /\ call.fn = "initConfig" /\ pc = "done"
    /\ call.persisted = Persisted
    /\ call.selected = <<"gitee", "gitlab">>
    /\ call.saveOk
    /\ file # call.persisted
    /\ Len(file.config.platforms) = 2
    /\ \A n \in Indices(file.config.platforms) :
          file.config.platforms[n].platform # "github"

============================================================================
